---- MODULE Spec2Model ----
(***************************************************************************)
(* Model of the Stock-Analysis-App Streamlit pages.                        *)
(*                                                                         *)
(*   pages/stock_analyss.py    the analysis page  (page = "analysis")      *)
(*   pages/stock_prediction.py the prediction page (page = "prediction")   *)
(*                                                                         *)
(* Every user interaction reruns the page script from the top.  A rerun is *)
(* modelled as a request that advances through the script between its      *)
(* external calls (ticker info, bar download, chart history, ARIMA fit);   *)
(* each external call returns bars, returns nothing, or raises.            *)
(* The indicator functions Moving_average and RSI are modelled as          *)
(* operators over exact rationals and exercised by SpecInd.                *)
(***************************************************************************)
EXTENDS Integers, Sequences, FiniteSets, TLC

VARIABLES
    session_state,      \* st.session_state of the one browser session
    page,               \* page script of the current request
    pc,                 \* position of the current request in the script
    status,             \* "idle" | "running" | "stopped" | "done" | "crashed"
    start_date,         \* date inputs of the current request (day numbers)
    end_date,
    click,              \* quick-period button pressed for this request
    fetches,            \* external calls attempted by this request, in order
    raised,             \* external call sites that raised in this request
    error,              \* kind of the st.error shown by this request, "" if none
    rendered,           \* charts, tables and widgets rendered by this request
    data,               \* bars of the primary download
    data1,              \* bars used for the analysis charts
    period_val,         \* analysis page local period_val
    period_for_history, \* analysis page local period_for_history
    series,             \* prediction page: data["Close"].dropna()
    forecast_days,      \* prediction page: horizon slider
    forecast_df,        \* prediction page: dates of the forecast table
    last_clicked,       \* quick period of the most recent button press of the session
    current_close,      \* "Current Close" metric of this request
    daily_change,       \* daily change shown with the metric
    close,              \* indicator input: closing prices
    window,             \* indicator input: window
    ma,                 \* Moving_average output series
    rsi,                \* RSI output series
    ind_pc              \* which indicator outputs have been computed

pageVars == <<session_state, page, pc, status, start_date, end_date, click,
              fetches, raised, error, rendered, data, data1, period_val,
              period_for_history, series, forecast_days, forecast_df,
              last_clicked, current_close, daily_change>>
indVars == <<close, window, ma, rsi, ind_pc>>
vars == <<pageVars, indVars>>

----------------------------------------------------------------------------
(* Bounds of the model *)

MaxDay == 6          \* date inputs and bar dates range over days 0..MaxDay
MaxBars == 2         \* most bars a provider result holds
MaxHorizon == 6      \* largest forecast_days explored

----------------------------------------------------------------------------
(* Dates: day d falls on weekday d % 7, 0 = Monday ... 6 = Sunday *)

Weekday(d) == d % 7

IsBusinessDay(d) == Weekday(d) < 5

\* pandas BusinessDay.rollforward: a weekend date moves to the next Monday
RollForward(d) ==
    IF IsBusinessDay(d) THEN d
    ELSE IF Weekday(d) = 5 THEN d + 2 ELSE d + 1

\* one BusinessDay step from a business day
AddBDay(d) == IF Weekday(d) = 4 THEN d + 3 ELSE d + 1

RECURSIVE BDaysFrom(_, _)
BDaysFrom(d, n) == IF n = 0 THEN <<>> ELSE <<d>> \o BDaysFrom(AddBDay(d), n - 1)

\* pd.date_range(start, periods=n, freq="B")
BDateRange(start, n) == BDaysFrom(RollForward(start), n)

----------------------------------------------------------------------------
(* Provider results *)

NaN == -1            \* a missing close (np.nan)

Unparseable == -2    \* a close that float() cannot parse (a non-numeric string)

PageCloses == {NaN, Unparseable, 1, 2}

RECURSIVE BarSeqs(_, _, _)
\* every result of at most n bars dated lo..hi, dates strictly ascending
BarSeqs(lo, hi, n) ==
    IF n = 0 \/ lo > hi THEN {<<>>}
    ELSE {<<>>} \cup
         UNION { { <<[date |-> d, close |-> c]>> \o rest :
                     c \in PageCloses, rest \in BarSeqs(d + 1, hi, n - 1) } :
                 d \in lo..hi }

\* yf.download(ticker, start=start_date, end=end_date + 1 day)
DownloadResults(s, e) == BarSeqs(s, e, MaxBars)

\* ticker_obj.history(period=...) / yf.download(start=today - lookback_days)
HistoryResults == BarSeqs(0, 0, 1)

\* slip: the check never recognises an empty result
IsEmpty_Never(d) == FALSE

\* DataFrame.empty
IsEmpty(d) == Len(d) = 0

----------------------------------------------------------------------------
(* Page inputs and script fragments *)

Pages == {"analysis", "prediction"}

\* values explored for the two st.date_input widgets of a page
DateInputs(p) == IF p = "analysis" THEN {0, 1} ELSE {0, MaxDay}

Buttons == {"5D", "1M", "6M", "YTD", "1Y", "5Y", "MAX"}

Periods == {"5d", "1mo", "6mo", "ytd", "1y", "5y", "max"}

PeriodOf(b) ==
    CASE b = "5D" -> "5d"  [] b = "1M" -> "1mo" [] b = "6M" -> "6mo"
      [] b = "YTD" -> "ytd" [] b = "1Y" -> "1y" [] b = "5Y" -> "5y"
      [] b = "MAX" -> "max"

MinForecastDays == 5

\* st.session_state.get(key, default)
SessionGet(key, default) ==
    IF key \in DOMAIN session_state THEN session_state[key] ELSE default

\* slip: equal dates pass the validation
DatesInvalid_Strict(s, e) == s > e

\* if start_date >= end_date: st.error(...); st.stop()
DatesInvalid(s, e) == s >= e

\* period_val after the seven "if cols[k].button(...)" lines
PeriodAfterButtons(pv, b) == IF b = "none" THEN pv ELSE PeriodOf(b)

\* period_val if period_val else f"{lookback_days}d"
PeriodForHistory(pv) == IF pv # "" THEN pv ELSE "lookback_days_d"

\* which provider call fetches the chart data
HistoryCall(pv) == IF pv # "" THEN "history" ELSE "lookback_download"

\* slip: the except branch leaves an empty frame instead of the primary data
Data1Of_NoFallback(outcome, fetched, d) ==
    IF outcome = "raise" THEN <<>> ELSE IF IsEmpty(fetched) THEN d ELSE fetched

\* data1 after the try/except around the chart-history fetch
Data1Of(outcome, fetched, d) ==
    IF outcome = "raise" \/ IsEmpty(fetched) THEN d ELSE fetched

SummaryTables == {"key_financials_table", "ratios_table"}

\* rendered between a non-empty primary download and the next external call
RenderedAfterDownload(p) ==
    IF p = "analysis" THEN {"metrics", "last10_table", "quick_buttons"}
    ELSE {"metrics", "hist_candlestick"}

\* the "Render charts" block of the analysis page
ChartsFor(chart_type, indicators) ==
    IF chart_type = "Candle"
    THEN {"candlestick"} \cup
         (IF indicators = "RSI" THEN {"rsi_chart"}
          ELSE IF indicators = "MACD" THEN {"macd_chart"} ELSE {})
    ELSE IF indicators = "Moving Average" THEN {"moving_average_chart"}
    ELSE {"close_chart"} \cup
         (IF indicators = "RSI" THEN {"rsi_chart"}
          ELSE IF indicators = "MACD" THEN {"macd_chart"} ELSE {})

IndicatorChoices(chart_type) ==
    IF chart_type = "Candle" THEN {"None", "RSI", "MACD"}
    ELSE {"None", "RSI", "Moving Average", "MACD"}

AnalysisCharts ==
    {"candlestick", "close_chart", "moving_average_chart", "rsi_chart", "macd_chart"}

ForecastSection ==
    {"forecast_line", "forecast_candlestick", "forecast_table", "forecast_csv"}

\* slip: the except branch reports the error but does not st.stop()
ForecastRendered_NoStop(outcome, download_csv) ==
    {"forecast_line", "forecast_candlestick", "forecast_table"} \cup
    (IF download_csv THEN {"forecast_csv"} ELSE {})

\* what the script renders after the try/except around the ARIMA fit: the
\* except branch ends the run with st.stop()
ForecastRendered(outcome, download_csv) ==
    IF outcome = "raise" THEN {}
    ELSE {"forecast_line", "forecast_candlestick", "forecast_table"} \cup
         (IF download_csv THEN {"forecast_csv"} ELSE {})

\* data["Close"].dropna()
RECURSIVE DropNa(_)
DropNa(d) ==
    IF d = <<>> THEN <<>>
    ELSE IF Head(d).close = NaN THEN DropNa(Tail(d))
    ELSE <<Head(d)>> \o DropNa(Tail(d))

\* pd.date_range(data.index[-1] + 1 day, periods=forecast_days, freq="B")
FutureDates(d, h) == BDateRange(d[Len(d)].date + 1, h)

----------------------------------------------------------------------------
(* Exact arithmetic for the indicator functions: a value is a reduced      *)
(* fraction n/d (k = "num"), np.nan (k = "nan") or +inf (k = "inf")        *)

MaxLen == 4          \* longest closing-price series explored
MaxClose == 3        \* closing prices range over 1..MaxClose
MaxWindow == 3       \* windows range over 1..MaxWindow

Abs(x) == IF x < 0 THEN -x ELSE x

RECURSIVE GCD(_, _)
GCD(a, b) == IF b = 0 THEN a ELSE GCD(b, a % b)

Norm(n, d) ==
    LET g == GCD(Abs(n), Abs(d))
        sgn == IF d < 0 THEN -1 ELSE 1
    IN  [k |-> "num", n |-> sgn * (n \div g), d |-> sgn * (d \div g)]

Q(n) == [k |-> "num", n |-> n, d |-> 1]

QNaN == [k |-> "nan", n |-> 0, d |-> 1]

QInf == [k |-> "inf", n |-> 1, d |-> 1]

IsNaN(x) == x.k = "nan"

IsNum(x) == x.k = "num"

QAdd(a, b) ==
    IF IsNaN(a) \/ IsNaN(b) THEN QNaN
    ELSE IF ~IsNum(a) \/ ~IsNum(b) THEN QInf
    ELSE LET g == GCD(a.d, b.d)
         IN  Norm(a.n * (b.d \div g) + b.n * (a.d \div g), (a.d \div g) * b.d)

QNeg(a) == IF IsNum(a) THEN [a EXCEPT !.n = -a.n] ELSE a

QSub(a, b) == QAdd(a, QNeg(b))

QMul(a, b) ==
    IF IsNaN(a) \/ IsNaN(b) THEN QNaN
    ELSE IF ~IsNum(a) \/ ~IsNum(b) THEN QInf
    ELSE LET g1 == GCD(Abs(a.n), b.d)
             g2 == GCD(Abs(b.n), a.d)
         IN  Norm((a.n \div g1) * (b.n \div g2), (a.d \div g2) * (b.d \div g1))

\* IEEE division: x/0 is inf for x > 0 and nan for x = 0, x/inf is 0
QDiv(a, b) ==
    IF IsNaN(a) \/ IsNaN(b) THEN QNaN
    ELSE IF ~IsNum(b) THEN (IF IsNum(a) THEN Q(0) ELSE QNaN)
    ELSE IF ~IsNum(a) THEN QInf
    ELSE IF b.n = 0 THEN (IF a.n = 0 THEN QNaN ELSE QInf)
    ELSE LET g1 == GCD(Abs(a.n), Abs(b.n))
             g2 == GCD(a.d, b.d)
         IN  Norm((a.n \div g1) * (b.d \div g2), (a.d \div g2) * (b.n \div g1))

QLeq(a, b) == IsNum(a) /\ IsNum(b) /\ a.n * b.d <= b.n * a.d

----------------------------------------------------------------------------
(* pandas Series operations used by Moving_average and RSI *)

\* slip: rolling(window, min_periods=1) averages the partial leading windows
MinPeriods_One(w) == 1

\* Series.rolling(window): min_periods defaults to the window
MinPeriods(w) == w

RECURSIVE SumObs(_, _, _)
\* sum of the observations (non-NaN values) of X[lo..hi]
SumObs(X, lo, hi) ==
    IF lo > hi THEN Q(0)
    ELSE IF IsNaN(X[hi]) THEN SumObs(X, lo, hi - 1)
    ELSE QAdd(SumObs(X, lo, hi - 1), X[hi])

CountObs(X, lo, hi) == Cardinality({i \in lo..hi : ~IsNaN(X[i])})

\* Series.rolling(window=w).mean(): position i looks back over at most w
\* values; fewer than min_periods observations give NaN
RollingMean(X, w) ==
    [i \in 1..Len(X) |->
        LET lo == IF i - w + 1 < 1 THEN 1 ELSE i - w + 1
            nobs == CountObs(X, lo, i)
        IN  IF nobs >= MinPeriods(w) /\ nobs > 0
            THEN QDiv(SumObs(X, lo, i), Q(nobs))
            ELSE QNaN]

\* Series.diff()
Diff(X) ==
    [i \in 1..Len(X) |-> IF i = 1 THEN QNaN ELSE QSub(X[i], X[i - 1])]

\* Series.clip(lower=0)
ClipLower0(X) ==
    [i \in 1..Len(X) |-> IF IsNum(X[i]) /\ X[i].n < 0 THEN Q(0) ELSE X[i]]

\* Series.clip(upper=0)
ClipUpper0(X) ==
    [i \in 1..Len(X) |-> IF IsNum(X[i]) /\ X[i].n > 0 THEN Q(0) ELSE X[i]]

RECURSIVE EwmFrom(_, _, _, _, _)
\* Series.ewm(alpha=alpha, adjust=False).mean(), pandas' ewm loop from
\* position i on: weighted is the running average, old_wt the weight it carries
EwmFrom(X, i, weighted, old_wt, alpha) ==
    IF i > Len(X) THEN <<>>
    ELSE LET cur == X[i]
             decayed == QMul(old_wt, QSub(Q(1), alpha))
             avg == IF IsNaN(weighted) THEN cur
                    ELSE IF IsNaN(cur) \/ weighted = cur THEN weighted
                    ELSE QDiv(QAdd(QMul(decayed, weighted), QMul(alpha, cur)),
                              QAdd(decayed, alpha))
             wt == IF IsNaN(weighted) THEN old_wt
                   ELSE IF IsNaN(cur) THEN decayed ELSE Q(1)
         IN  <<avg>> \o EwmFrom(X, i + 1, avg, wt, alpha)

Ewm(X, alpha) == EwmFrom(X, 1, QNaN, Q(1), alpha)

\* slip: the zero average loss is not replaced before the division
ReplaceZero_Skip(x) == x

\* Series.replace(0, np.nan)
ReplaceZero(x) == IF IsNum(x) /\ x.n = 0 THEN QNaN ELSE x

\* slip: the undefined values are not filled
Fillna_Skip(x, v) == x

\* Series.fillna(v)
Fillna(x, v) == IF IsNaN(x) THEN v ELSE x

RSINeutral == 50

RSIDefaultWindow == 14

----------------------------------------------------------------------------
(* The indicator functions of stock_analyss.py, returning the plotted series *)

ToQ(S) == [i \in 1..Len(S) |-> Q(S[i])]

Moving_average(S, w) == RollingMean(ToQ(S), w)

RSI(S, w) ==
    LET delta == Diff(ToQ(S))
        gain == ClipLower0(delta)
        loss == [i \in 1..Len(S) |-> QNeg(ClipUpper0(delta)[i])]
        alpha == Norm(1, w)
        avg_gain == Ewm(gain, alpha)
        avg_loss == Ewm(loss, alpha)
    IN  [i \in 1..Len(S) |->
            LET rs == QDiv(avg_gain[i], ReplaceZero(avg_loss[i]))
                raw == QSub(Q(100), QDiv(Q(100), QAdd(Q(1), rs)))
            IN  Fillna(raw, Q(RSINeutral))]

----------------------------------------------------------------------------
(* Indicator inputs *)

RECURSIVE SeqsUpTo(_, _)
\* the non-empty sequences over V of length at most n
SeqsUpTo(V, n) ==
    IF n = 0 THEN {}
    ELSE LET shorter == SeqsUpTo(V, n - 1)
         IN  {<<v>> : v \in V} \cup shorter \cup
             {Append(s, v) : s \in shorter, v \in V}

\* 40 daily closes rising by 1.0 per day from 100.0
LinearSeries == [i \in 1..40 |-> 99 + i]

CloseSeries == SeqsUpTo(1..MaxClose, MaxLen) \cup {LinearSeries}

Windows == (1..MaxWindow) \cup {RSIDefaultWindow}

----------------------------------------------------------------------------
(* The "Current Close" metric: current_close, prev_close, daily_change *)

\* float(x) returns (a number or nan) rather than raising ValueError
Parses(x) == x # Unparseable

\* float(x) of a value it parses
FloatOf(x) == IF x = NaN THEN QNaN ELSE Q(x)

\* pd.to_numeric(x, errors="coerce")
ToNumericCoerce(x) == IF Parses(x) THEN FloatOf(x) ELSE QNaN

\* Python "x or default": only 0.0 is falsy, nan is truthy
OrElse(x, default) == IF IsNum(x) /\ x.n = 0 THEN default ELSE x

\* float(v) guarded by try/except: float(pd.to_numeric(v, errors="coerce") or default)
FloatOrDefault(v, default) ==
    IF Parses(v) THEN FloatOf(v) ELSE OrElse(ToNumericCoerce(v), default)

\* stock_analyss.py 273-286; crash = float() raised outside a try block
AnalysisMetrics(d) ==
    LET n == Len(d)
    IN  IF n >= 2
        THEN LET cur == FloatOrDefault(d[n].close, Q(0))
                 prev == FloatOrDefault(d[n - 1].close, cur)
             IN  [crash |-> FALSE, current_close |-> cur,
                  daily_change |-> QSub(cur, prev)]
        ELSE IF Parses(d[n].close)
        THEN [crash |-> FALSE, current_close |-> FloatOf(d[n].close),
              daily_change |-> Q(0)]
        ELSE [crash |-> TRUE, current_close |-> Q(0), daily_change |-> Q(0)]

\* stock_prediction.py 67-69: no try block around either float()
PredictionMetrics(d) ==
    LET n == Len(d)
    IN  IF ~Parses(d[n].close) \/ (n > 1 /\ ~Parses(d[n - 1].close))
        THEN [crash |-> TRUE, current_close |-> Q(0), daily_change |-> Q(0)]
        ELSE LET cur == FloatOf(d[n].close)
                 prev == IF n > 1 THEN FloatOf(d[n - 1].close) ELSE cur
             IN  [crash |-> FALSE, current_close |-> cur,
                  daily_change |-> QSub(cur, prev)]

Metrics(p, d) == IF p = "analysis" THEN AnalysisMetrics(d) ELSE PredictionMetrics(d)

----------------------------------------------------------------------------
(* Initial state: a fresh session, no request made yet *)

IndIdle ==
    /\ close = <<>>
    /\ window = 1
    /\ ma = <<>>
    /\ rsi = <<>>
    /\ ind_pc = "idle"

PageIdle ==
    /\ session_state = [k \in {} |-> ""]
    /\ page = "analysis"
    /\ pc = "end"
    /\ status = "idle"
    /\ start_date = 0
    /\ end_date = 0
    /\ click = "none"
    /\ fetches = <<>>
    /\ raised = {}
    /\ error = ""
    /\ rendered = {}
    /\ data = <<>>
    /\ data1 = <<>>
    /\ period_val = ""
    /\ period_for_history = ""
    /\ series = <<>>
    /\ forecast_days = MinForecastDays
    /\ forecast_df = <<>>
    /\ last_clicked = ""
    /\ current_close = Q(0)
    /\ daily_change = Q(0)

Init == PageIdle /\ IndIdle

----------------------------------------------------------------------------
(* A rerun of a page script *)

RequestOver == status \in {"idle", "stopped", "done", "crashed"}

\* The user changes an input or presses a button: the script reruns from the
\* top.  A quick-period button can only be pressed if the previous run of the
\* analysis page rendered the buttons.
StartRequest ==
    /\ RequestOver
    /\ \E p \in Pages, b \in Buttons \cup {"none"} :
       \E s \in DateInputs(p), e \in DateInputs(p) :
        /\ b # "none" => (p = "analysis" /\ page = "analysis" /\ "quick_buttons" \in rendered)
        /\ page' = p
        /\ start_date' = s
        /\ end_date' = e
        /\ click' = b
    /\ pc' = "validate"
    /\ status' = "running"
    /\ fetches' = <<>>
    /\ raised' = {}
    /\ error' = ""
    /\ rendered' = {}
    /\ data' = <<>>
    /\ data1' = <<>>
    /\ period_val' = ""
    /\ period_for_history' = ""
    /\ series' = <<>>
    /\ forecast_days' = MinForecastDays
    /\ forecast_df' = <<>>
    /\ current_close' = Q(0)
    /\ daily_change' = Q(0)
    /\ UNCHANGED <<session_state, last_clicked, indVars>>

\* stock_analyss.py 216-219, stock_prediction.py 53-55
Validate ==
    /\ status = "running"
    /\ pc = "validate"
    /\ IF DatesInvalid(start_date, end_date)
       THEN /\ error' = "InvalidInput"
            /\ status' = "stopped"
            /\ pc' = "end"
       ELSE /\ pc' = IF page = "analysis" THEN "info" ELSE "download"
            /\ UNCHANGED <<error, status>>
    /\ UNCHANGED <<session_state, page, start_date, end_date, click, fetches,
                   raised, rendered, data, data1, period_val, period_for_history,
                   series, forecast_days, forecast_df, last_clicked, current_close, daily_change, indVars>>

\* stock_analyss.py 223-261: ticker info in try/except, then the summary tables
FetchInfo ==
    /\ status = "running"
    /\ pc = "info"
    /\ fetches' = Append(fetches, "info")
    /\ \E outcome \in {"ok", "raise"} :
        IF outcome = "raise"
        THEN /\ raised' = raised \cup {"info"}
             /\ error' = "ProviderUnavailable"
             /\ status' = "stopped"
             /\ pc' = "end"
             /\ UNCHANGED rendered
        ELSE /\ rendered' = rendered \cup SummaryTables
             /\ pc' = "download"
             /\ UNCHANGED <<raised, error, status>>
    /\ UNCHANGED <<session_state, page, start_date, end_date, click, data, data1,
                   period_val, period_for_history, series, forecast_days,
                   forecast_df, last_clicked, current_close, daily_change, indVars>>

\* stock_analyss.py 267-306, stock_prediction.py 62-92: the primary download is
\* not inside a try block, so an exception of the provider leaves the script.
\* With bars, the metrics and the historical table/chart are rendered and, on
\* the analysis page, the quick-period buttons are evaluated.
Download ==
    /\ status = "running"
    /\ pc = "download"
    /\ fetches' = Append(fetches, "download")
    /\ \E outcome \in {"ok", "raise"}, d \in DownloadResults(start_date, end_date) :
        IF outcome = "raise"
        THEN /\ raised' = raised \cup {"download"}
             /\ status' = "crashed"
             /\ pc' = "end"
             /\ UNCHANGED <<error, rendered, data, period_val, last_clicked,
                            current_close, daily_change>>
        ELSE /\ data' = d
             /\ UNCHANGED raised
             /\ IF IsEmpty(d)
                THEN /\ error' = "NoDataFound"
                     /\ status' = "stopped"
                     /\ pc' = "end"
                     /\ UNCHANGED <<rendered, period_val, last_clicked,
                                    current_close, daily_change>>
                ELSE IF Len(d) = 0 \/ Metrics(page, d).crash
                THEN \* float() raised outside a try block (or iloc[-1] found no row)
                     /\ status' = "crashed"
                     /\ pc' = "end"
                     /\ UNCHANGED <<error, rendered, period_val, last_clicked,
                                    current_close, daily_change>>
                ELSE /\ current_close' = Metrics(page, d).current_close
                     /\ daily_change' = Metrics(page, d).daily_change
                     /\ rendered' = rendered \cup RenderedAfterDownload(page)
                     /\ pc' = IF page = "analysis" THEN "history" ELSE "arima"
                     /\ period_val' =
                          IF page = "analysis"
                          THEN PeriodAfterButtons(SessionGet("period_val", ""), click)
                          ELSE period_val
                     /\ last_clicked' =
                          IF page = "analysis" /\ click # "none"
                          THEN PeriodOf(click) ELSE last_clicked
                     /\ UNCHANGED <<error, status>>
    /\ UNCHANGED <<session_state, page, start_date, end_date, click, data1,
                   period_for_history, series, forecast_days, forecast_df, indVars>>

\* stock_analyss.py 308-367: chart settings, chart-history fetch inside
\* try/except with the primary data as fallback, charts, CSV button
History ==
    /\ status = "running"
    /\ pc = "history"
    /\ period_for_history' = PeriodForHistory(period_val)
    /\ fetches' = Append(fetches, HistoryCall(period_val))
    /\ \E outcome \in {"ok", "raise"}, fetched \in HistoryResults,
          chart_type \in {"Candle", "Line"}, show_download \in BOOLEAN :
        \E indicators \in IndicatorChoices(chart_type) :
            /\ outcome = "raise" => fetched = <<>>
            /\ raised' = IF outcome = "raise"
                         THEN raised \cup {HistoryCall(period_val)} ELSE raised
            /\ data1' = Data1Of(outcome, fetched, data)
            /\ rendered' = rendered \cup ChartsFor(chart_type, indicators)
                              \cup (IF show_download THEN {"download_button"} ELSE {})
    /\ status' = "done"
    /\ pc' = "end"
    /\ UNCHANGED <<session_state, page, start_date, end_date, click, error, data,
                   period_val, series, forecast_days, forecast_df, last_clicked,
                   current_close, daily_change, indVars>>

\* stock_prediction.py 99-158: ARIMA(5,1,0) fit and forecast inside try/except,
\* then the forecast charts, table and CSV button
Arima ==
    /\ status = "running"
    /\ pc = "arima"
    /\ series' = DropNa(data)
    /\ fetches' = Append(fetches, "arima")
    /\ \E outcome \in {"ok", "raise"}, h \in MinForecastDays..MaxHorizon,
          download_csv \in BOOLEAN :
        /\ Len(DropNa(data)) = 0 => outcome = "raise"
        /\ (\E i \in DOMAIN data : ~Parses(data[i].close)) => outcome = "raise"
        /\ forecast_days' = h
        /\ IF outcome = "raise"
           THEN /\ raised' = raised \cup {"arima"}
                /\ error' = "ModelFitError"
                /\ status' = "stopped"
                /\ UNCHANGED forecast_df
           ELSE /\ forecast_df' = FutureDates(data, h)
                /\ status' = "done"
                /\ UNCHANGED <<raised, error>>
        /\ rendered' = rendered \cup ForecastRendered(outcome, download_csv)
    /\ pc' = "end"
    /\ UNCHANGED <<session_state, page, start_date, end_date, click, data, data1,
                   period_val, period_for_history, last_clicked, current_close, daily_change, indVars>>

Next ==
    \/ StartRequest
    \/ Validate
    \/ FetchInfo
    \/ Download
    \/ History
    \/ Arima

Spec == Init /\ [][Next]_vars

----------------------------------------------------------------------------
(* Properties of the page requests, checked under Spec *)

Attempted(site) == \E i \in DOMAIN fetches : fetches[i] = site

ProviderFetches == {"info", "download", "history", "lookback_download"}

ErrorKinds == {"InvalidInput", "NoDataFound", "ProviderUnavailable", "ModelFitError"}

\* C1: on both pages a request whose start date is equal to or after its end
\* date reports an invalid-input error and halts, and at no point of that
\* request has a provider fetch been attempted (nor anything rendered).
InvalidDatesHaltBeforeFetch ==
    (status # "idle" /\ start_date >= end_date) =>
        /\ fetches = <<>>
        /\ rendered = {}
        /\ pc # "validate" => (error = "InvalidInput" /\ status = "stopped")

\* C1 witness: a request with equal dates has been validated and halted.
InvalidDatesHalted ==
    /\ status = "stopped"
    /\ error = "InvalidInput"
    /\ start_date = end_date
    /\ pc = "end"

\* the primary download of this request returned without raising, with zero bars
ZeroBars ==
    /\ status # "idle"
    /\ Attempted("download")
    /\ "download" \notin raised
    /\ data = <<>>

\* C2 as stated: when the provider returns zero bars the request reports a
\* no-data error and halts, and no chart or table has been rendered in that
\* request, before or after the error.
ZeroBarsNothingRendered ==
    ZeroBars => (error = "NoDataFound" /\ status = "stopped" /\ rendered = {})

\* C2 amended: when the provider returns zero bars the request reports a
\* no-data error and halts at the download; nothing is rendered after the
\* error, the prediction page has rendered nothing, and the analysis page has
\* rendered exactly the two ticker-info summary tables that precede the download.
ZeroBarsOnlySummaryTables ==
    ZeroBars =>
        /\ error = "NoDataFound"
        /\ status = "stopped"
        /\ fetches[Len(fetches)] = "download"
        /\ rendered = IF page = "analysis" THEN SummaryTables ELSE {}

\* C2 witness: the analysis page got zero bars after rendering its summary tables.
ZeroBarsAfterSummaryTables ==
    /\ ZeroBars
    /\ page = "analysis"
    /\ error = "NoDataFound"
    /\ rendered = SummaryTables

\* C3: on the prediction page, when fitting or forecasting the ARIMA model
\* raises, the error is reported and the request halts with the whole forecast
\* section skipped, while the historical candlestick rendered earlier remains.
ArimaFailureSkipsForecastOnly ==
    "arima" \in raised =>
        /\ error = "ModelFitError"
        /\ status = "stopped"
        /\ rendered \cap ForecastSection = {}
        /\ "hist_candlestick" \in rendered

\* C3 witness: the fit raised on a non-empty series after the historical chart.
ArimaFailedAfterHistoricalChart ==
    /\ "arima" \in raised
    /\ series # <<>>
    /\ "hist_candlestick" \in rendered
    /\ status = "stopped"

\* the first business day strictly after day d
NextBusinessDayAfter(d) ==
    CHOOSE x \in (d + 1)..(d + 3) :
        IsBusinessDay(x) /\ \A y \in (d + 1)..(x - 1) : ~IsBusinessDay(y)

\* C4 as stated: a successful forecast with horizon forecast_days has exactly
\* that many rows, all dates Monday-Friday, each the next business day after
\* the one before, and the first the next business day after the last date of
\* the series fed to the model (the closes with the missing ones dropped).
ForecastDatesFollowSeries ==
    (page = "prediction" /\ status = "done") =>
        /\ Len(forecast_df) = forecast_days
        /\ \A i \in 1..Len(forecast_df) : IsBusinessDay(forecast_df[i])
        /\ \A i \in 1..(Len(forecast_df) - 1) :
              forecast_df[i + 1] = NextBusinessDayAfter(forecast_df[i])
        /\ forecast_df[1] = NextBusinessDayAfter(series[Len(series)].date)

\* C5 as stated: whichever external call site raises (ticker info, primary
\* download, chart history, model fit), the request ends in a reported error
\* of one of the listed kinds, never as an uncaught exception.
EveryRaiseIsReported ==
    raised # {} => (status = "stopped" /\ error \in ErrorKinds)

LastClickedPeriodPersists ==
    /\ SessionGet("period_val", "") \in Periods \cup {""}
    /\ (page = "analysis" /\ status = "done" /\ click = "none" /\ last_clicked # "") =>
          period_for_history = last_clicked

\* a close that is a number: neither missing nor unparseable
ValidClose(x) == x \notin {NaN, Unparseable}

HasValidUpTo(d, i) == \E j \in 1..i : ValidClose(d[j].close)

\* the close of the latest bar at or before position i whose close is valid
NearestValidClose(d, i) ==
    LET j == CHOOSE k \in 1..i :
                 /\ ValidClose(d[k].close)
                 /\ \A m \in (k + 1)..i : ~ValidClose(d[m].close)
    IN  d[j].close

\* the primary download of this request returned bars
BarsDownloaded ==
    /\ status # "idle"
    /\ Attempted("download")
    /\ "download" \notin raised
    /\ data # <<>>

\* C11 as stated: on both pages, once bars are downloaded the metric is shown
\* with finite numbers derived from valid closes: the current close is the last
\* close or, when that is not a number, the nearest earlier valid close; the
\* previous close likewise from the second-to-last bar; and with fewer than 2
\* bars the daily change is 0.
CloseMetricsFallBackToValidClose ==
    LET n == Len(data)
        curOk == HasValidUpTo(data, n)
        prevOk == n >= 2 /\ HasValidUpTo(data, n - 1)
    IN  BarsDownloaded =>
            /\ (curOk /\ (n < 2 \/ prevOk)) => "metrics" \in rendered
            /\ (curOk /\ "metrics" \in rendered) =>
                  current_close = Q(NearestValidClose(data, n))
            /\ (curOk /\ prevOk /\ "metrics" \in rendered) =>
                  daily_change = QSub(Q(NearestValidClose(data, n)),
                                      Q(NearestValidClose(data, n - 1)))
            /\ (n < 2 /\ "metrics" \in rendered) => daily_change = Q(0)

----------------------------------------------------------------------------
(* The indicator functions applied to every input of the bounded sets *)

InitInd ==
    /\ PageIdle
    /\ close \in CloseSeries
    /\ window \in Windows
    /\ ma = <<>>
    /\ rsi = <<>>
    /\ ind_pc = "input"

\* stock_analyss.py 349: Moving_average(data1, ..., window=ma_window)
CallMovingAverage ==
    /\ ind_pc \in {"input", "rsi"}
    /\ ma' = Moving_average(close, window)
    /\ ind_pc' = IF ind_pc = "input" THEN "ma" ELSE "both"
    /\ UNCHANGED <<close, window, rsi, pageVars>>

\* stock_analyss.py 344, 353: RSI(data1, title_label)
CallRSI ==
    /\ ind_pc \in {"input", "ma"}
    /\ rsi' = RSI(close, window)
    /\ ind_pc' = IF ind_pc = "input" THEN "rsi" ELSE "both"
    /\ UNCHANGED <<close, window, ma, pageVars>>

NextInd ==
    \/ CallMovingAverage
    \/ CallRSI

SpecInd == InitInd /\ [][NextInd]_vars

----------------------------------------------------------------------------
(* Properties of the indicator functions, checked under SpecInd *)

MaComputed == ind_pc \in {"ma", "both"}

RsiComputed == ind_pc \in {"rsi", "both"}

RECURSIVE IntSum(_, _, _)
\* S[lo] + ... + S[hi]
IntSum(S, lo, hi) == IF lo > hi THEN 0 ELSE S[hi] + IntSum(S, lo, hi - 1)

\* C8: for a finite series and a window 1 <= w <= len, the moving average at
\* 0-based index i is defined iff i >= w-1, where defined it is the arithmetic
\* mean of the w closes ending at i, and the leading undefined values are gaps
\* (NaN), never 0.  Positions are 1-based here: j = i + 1.
MovingAverageDefinedIffWindowFilled ==
    (MaComputed /\ window <= Len(close)) =>
        /\ Len(ma) = Len(close)
        /\ \A j \in 1..Len(close) :
              /\ IsNum(ma[j]) <=> j >= window
              /\ j >= window =>
                    ma[j].n * window = ma[j].d * IntSum(close, j - window + 1, j)
              /\ j < window => (IsNaN(ma[j]) /\ ma[j] # Q(0))

\* C8 witness: a window of 2 over three closes left one gap and two means.
MovingAverageWithGap ==
    /\ MaComputed
    /\ window = 2
    /\ Len(close) = 3
    /\ IsNaN(ma[1])
    /\ IsNum(ma[2])
    /\ IsNum(ma[3])

\* gain (up = TRUE) or loss (up = FALSE) of the delta ending at 1-based position j >= 2
GainLoss(S, j, up) ==
    LET delta == S[j] - S[j - 1]
    IN  IF up THEN (IF delta > 0 THEN delta ELSE 0)
        ELSE (IF delta < 0 THEN -delta ELSE 0)

RECURSIVE SmoothedAvg(_, _, _, _)
\* avg[j] = alpha*x[j] + (1-alpha)*avg[j-1], alpha = 1/w, seeded with the
\* first defined delta (position 2)
SmoothedAvg(S, w, j, up) ==
    IF j = 2 THEN Q(GainLoss(S, 2, up))
    ELSE QAdd(QMul(Norm(1, w), Q(GainLoss(S, j, up))),
              QMul(Norm(w - 1, w), SmoothedAvg(S, w, j - 1, up)))

\* C9: for a finite series and a positive window every RSI value lies in
\* [0,100]; it is exactly 50 where the smoothed average loss is 0 and at the
\* first position, where no delta exists; everywhere else it equals
\* 100 - 100/(1 + avg_gain/avg_loss) with the smoothed averages of the
\* recurrence avg[i] = alpha*x[i] + (1-alpha)*avg[i-1], alpha = 1/window.
RsiInRangeAndNeutralOnZeroLoss ==
    RsiComputed =>
        /\ Len(rsi) = Len(close)
        /\ \A j \in 1..Len(close) :
              /\ QLeq(Q(0), rsi[j])
              /\ QLeq(rsi[j], Q(100))
              /\ IF j = 1 THEN rsi[j] = Q(50)
                 ELSE IF SmoothedAvg(close, window, j, FALSE) = Q(0) THEN rsi[j] = Q(50)
                 ELSE rsi[j] =
                        QSub(Q(100),
                             QDiv(Q(100),
                                  QAdd(Q(1), QDiv(SmoothedAvg(close, window, j, TRUE),
                                                  SmoothedAvg(close, window, j, FALSE)))))

\* C9 witness: with the default window, an RSI series holding the neutral 50
\* at a position after the first and a value other than 50 elsewhere.
RsiMixedValues ==
    /\ RsiComputed
    /\ window = RSIDefaultWindow
    /\ \E j \in 2..Len(close) : rsi[j] = Q(50)
    /\ \E j \in 2..Len(close) : rsi[j] # Q(50) /\ rsi[j] # Q(0)

StrictlyIncreasing(S) == \A i \in 1..(Len(S) - 1) : S[i] < S[i + 1]

\* C10 as stated: over a strictly increasing series (such as the 40 closes
\* rising by 1.0 from 100.0) the RSI values rise toward 100 along the series
\* and the last value is above the overbought threshold 70.
RsiOfRisingSeriesAboveOverbought ==
    (RsiComputed /\ StrictlyIncreasing(close) /\ Len(close) >= 2) =>
        /\ \A j \in 1..(Len(close) - 1) : QLeq(rsi[j], rsi[j + 1])
        /\ QLeq(Q(70), rsi[Len(close)])
        /\ rsi[Len(close)] # Q(70)

\* C10 amended: over a strictly increasing series (such as the 40 closes
\* rising by 1.0 from 100.0) the average loss is 0 throughout, so the RSI is
\* the neutral 50 at every index: it does not move toward 100 and its last
\* value is below the overbought threshold 70.
RsiOfRisingSeriesIsNeutral ==
    (RsiComputed /\ StrictlyIncreasing(close)) =>
        /\ Len(rsi) = Len(close)
        /\ \A j \in 1..Len(close) : rsi[j] = Q(50)

\* C10 witness: the RSI of the 40-day linear series with the default window.
RsiOfLinearSeriesComputed ==
    /\ RsiComputed
    /\ close = LinearSeries
    /\ window = RSIDefaultWindow
    /\ rsi[Len(close)] = Q(50)

====
